---------------------------- MODULE Spec2Model ----------------------------
(***************************************************************************)
(* amidiauto - ALSA MIDI autoconnect daemon (src/amidiauto.cpp).           *)
(*                                                                         *)
(* C strings are sequences of one-character strings.  The module holds     *)
(* three specifications over the same variables:                           *)
(*   SpecRules : the ConnectionRules class driven by arbitrary addRule     *)
(*               calls followed by isConnectionAllowed queries;            *)
(*   SpecMain  : main() reading /etc/amidiauto.conf line by line and       *)
(*               installing the default rule;                              *)
(*   Spec      : run(): portsInit() and the sequencer event loop.          *)
(***************************************************************************)
EXTENDS Integers, Sequences, FiniteSets, Bags, TLC

VARIABLES
    m_allowRules,     \* g_rules.m_allowRules   : bag of <<output, input>>
    m_disallowRules,  \* g_rules.m_disallowRules: bag of <<output, input>>
    pc,               \* position of the program
    q,                \* last isConnectionAllowed call and its result
    type,             \* parseRuleFile: the active section
    consumed,         \* parseRuleFile: the lines fgets returned so far
    addCalls,         \* parseRuleFile: addRule calls made for the last line
    g_swClients,      \* clients_t g_swClients
    g_hwClients,      \* clients_t g_hwClients
    last,             \* the last registry operation, its input and result
    connects          \* connect() calls made by the last operation

vars == <<m_allowRules, m_disallowRules, pc, q, type, consumed, addCalls,
          g_swClients, g_hwClients, last, connects>>

ruleVars == <<m_allowRules, m_disallowRules>>
parseVars == <<type, consumed, addCalls>>
regVars == <<g_swClients, g_hwClients, last, connects>>

---------------------------------------------------------------------------
(* Bounds *)

\* most addRule calls made on one ConnectionRules object (SpecRules)
MaxRules == 2
\* most lines in the configuration file (SpecMain)
MaxLines == 4
\* the greatest port number of the client that has several ports (Spec)
MaxPort == 1

---------------------------------------------------------------------------
(* Program constants *)

TYPE_UNKNOWN  == -1
TYPE_ALLOW    == 0
TYPE_DISALLOW == 1

STRENGTH_NONE       == 0
STRENGTH_VERY_VAGUE == 1
STRENGTH_VAGUE      == 2
STRENGTH_SPECIFIC   == 3

Strengths == {STRENGTH_NONE, STRENGTH_VERY_VAGUE, STRENGTH_VAGUE, STRENGTH_SPECIFIC}

\* a char* that is NULL; no C string equals it, characters being
\* one-character strings
NULL == <<"NULL">>

---------------------------------------------------------------------------
(* Strings *)

s_star        == <<"*">>
s_empty       == <<>>
s_starstar    == <<"*", "*">>
s_FooStarBar  == <<"F", "o", "o", "*", "B", "a", "r">>
s_DeviceX     == <<"D", "e", "v", "i", "c", "e", "X">>
s_Synth       == <<"S", "y", "n", "t", "h">>
s_Recorder    == <<"R", "e", "c", "o", "r", "d", "e", "r">>

n_System      == <<"S", "y", "s", "t", "e", "m">>
n_MySynthPort == <<"M", "y", "S", "y", "n", "t", "h", " ", "P", "o", "r", "t">>
n_RecorderIn  == <<"R", "e", "c", "o", "r", "d", "e", "r", " ", "I", "n">>
n_MidiThrough == <<"M", "i", "d", "i", " ", "T", "h", "r", "o", "u", "g", "h">>
n_DeviceX1    == <<"U", "S", "B", " ", "D", "e", "v", "i", "c", "e", "X", " ", "1">>
n_OtherApp    == <<"O", "t", "h", "e", "r", " ", "A", "p", "p">>

\* strchr(s, c) != NULL
HasChar(s, c) == \E k \in 1..Len(s) : s[k] = c

\* haystack.find(needle) != std::string::npos
Contains(haystack, needle) ==
    \E k \in 0..(Len(haystack) - Len(needle)) :
        SubSeq(haystack, k + 1, k + Len(needle)) = needle

\* the least k with haystack[k .. ] starting with needle, 0 when there is none
\* (strstr / strchr as an index)
StrStr(haystack, needle) ==
    LET hits == {k \in 1..(Len(haystack) - Len(needle) + 1) :
                    SubSeq(haystack, k, k + Len(needle) - 1) = needle}
    IN IF hits = {} THEN 0 ELSE CHOOSE k \in hits : \A j \in hits : k <= j

\* strncmp(a, b, n) == 0
StrNEq(a, b, n) ==
    SubSeq(a, 1, IF Len(a) < n THEN Len(a) ELSE n)
        = SubSeq(b, 1, IF Len(b) < n THEN Len(b) ELSE n)

---------------------------------------------------------------------------
(* The sequencer's clients: what snd_seq_get_any_client_info reports *)

\* SND_SEQ_CLIENT_SYSTEM
SND_SEQ_CLIENT_SYSTEM == 0

ClientIds == 0..6

\* the name of a client, NULL-like "" for a client the sequencer does not know
ClientNameOf(c) ==
    CASE c = 0 -> n_System
      [] c = 1 -> n_MySynthPort
      [] c = 2 -> n_RecorderIn
      [] c = 3 -> n_MidiThrough
      [] c = 4 -> n_DeviceX1
      [] c = 5 -> n_OtherApp
      [] OTHER -> NULL

\* getClientName(addr)
getClientName(addr) ==
    IF ClientNameOf(addr.client) = NULL THEN s_empty ELSE ClientNameOf(addr.client)

---------------------------------------------------------------------------
(* ConnectionRules *)

addRuleRejects_NoMixedCheck(t, output, input) ==
    output = NULL \/ input = NULL \/ t = TYPE_UNKNOWN

addRuleRejects_NoKindCheck(t, output, input) ==
    \/ output = NULL \/ input = NULL
    \/ (HasChar(output, "*") /\ Len(output) > 1)
    \/ (HasChar(input, "*") /\ Len(input) > 1)

\* the early returns of addRule
addRuleRejects(t, output, input) ==
    \/ output = NULL \/ input = NULL \/ t = TYPE_UNKNOWN
    \/ (HasChar(output, "*") /\ Len(output) > 1)
    \/ (HasChar(input, "*") /\ Len(input) > 1)

\* the rule collections after addRule(t, output, input) on <<allow, disallow>>
addRule(rules, t, output, input) ==
    IF addRuleRejects(t, output, input) THEN rules
    ELSE IF t = TYPE_ALLOW
         THEN <<rules[1] (+) SetToBag({<<output, input>>}), rules[2]>>
         ELSE <<rules[1], rules[2] (+) SetToBag({<<output, input>>})>>

\* hasRules()
hasRules(rules) == rules[1] # EmptyBag \/ rules[2] # EmptyBag

evaluateRule_VagueForSpecific(rule, outputName, inputName) ==
    IF rule[1] = s_star
    THEN IF rule[2] = s_star THEN STRENGTH_VERY_VAGUE
         ELSE IF Contains(inputName, rule[2]) THEN STRENGTH_VAGUE
         ELSE STRENGTH_NONE
    ELSE IF Contains(outputName, rule[1])
         THEN IF rule[2] = s_star THEN STRENGTH_VAGUE
              ELSE IF Contains(inputName, rule[2]) THEN STRENGTH_VAGUE
              ELSE STRENGTH_NONE
         ELSE STRENGTH_NONE

\* evaluate(const rule_t &, outputName, inputName)
evaluateRule(rule, outputName, inputName) ==
    IF rule[1] = s_star
    THEN IF rule[2] = s_star THEN STRENGTH_VERY_VAGUE
         ELSE IF Contains(inputName, rule[2]) THEN STRENGTH_VAGUE
         ELSE STRENGTH_NONE
    ELSE IF Contains(outputName, rule[1])
         THEN IF rule[2] = s_star THEN STRENGTH_VAGUE
              ELSE IF Contains(inputName, rule[2]) THEN STRENGTH_SPECIFIC
              ELSE STRENGTH_NONE
         ELSE STRENGTH_NONE

\* the loop of evaluate(const rules_t &, ...) over the rules still to visit
RECURSIVE evaluateLoop(_, _, _, _)
evaluateLoop(todo, strength, outputName, inputName) ==
    IF todo = {} THEN strength
    ELSE LET rule == CHOOSE r \in todo : TRUE
             s == evaluateRule(rule, outputName, inputName)
         IN evaluateLoop(todo \ {rule},
                         IF strength < s THEN s ELSE strength,
                         outputName, inputName)

evaluate_FirstRuleOnly(rules, output, input) ==
    IF BagToSet(rules) = {} THEN STRENGTH_NONE
    ELSE evaluateRule(CHOOSE r \in BagToSet(rules) : TRUE,
                      getClientName(output), getClientName(input))

\* evaluate(const rules_t &, snd_seq_addr_t output, snd_seq_addr_t input)
evaluate(rules, output, input) ==
    evaluateLoop(BagToSet(rules), STRENGTH_NONE,
                 getClientName(output), getClientName(input))

isConnectionAllowed_DisallowWinsTies(rules, output, input, minimumStrength) ==
    LET allowStrength == evaluate(rules[1], output, input)
        disallowStrength == evaluate(rules[2], output, input)
    IN allowStrength >= minimumStrength /\ allowStrength > disallowStrength

isConnectionAllowed_MinimumOnly(rules, output, input, minimumStrength) ==
    LET allowStrength == evaluate(rules[1], output, input)
    IN allowStrength >= minimumStrength

\* isConnectionAllowed(output, input, minimumStrength)
isConnectionAllowed(rules, output, input, minimumStrength) ==
    LET allowStrength == evaluate(rules[1], output, input)
        disallowStrength == evaluate(rules[2], output, input)
    IN allowStrength >= minimumStrength /\ allowStrength >= disallowStrength

g_rules == <<m_allowRules, m_disallowRules>>

---------------------------------------------------------------------------
(* Values of the variables a specification does not use *)

NoQuery == [op |-> "none"]
NoLast == [op |-> "none"]
NoClients == [c \in {} |-> 0]

InitRuleVars == m_allowRules = EmptyBag /\ m_disallowRules = EmptyBag
InitParseVars == type = TYPE_UNKNOWN /\ consumed = <<>> /\ addCalls = <<>>
InitRegVars ==
    /\ g_swClients = NoClients
    /\ g_hwClients = NoClients
    /\ last = NoLast
    /\ connects = <<>>

---------------------------------------------------------------------------
(* SpecRules: a ConnectionRules object, loaded by addRule calls and then   *)
(* asked isConnectionAllowed                                               *)

\* the kinds and patterns addRule is called with
RuleTypes == {TYPE_ALLOW, TYPE_DISALLOW, TYPE_UNKNOWN}
RulePatterns == {NULL, s_empty, s_star, s_starstar, s_FooStarBar, s_DeviceX}

\* the clients whose addresses isConnectionAllowed is asked about
QueryClients == {2, 4, 6}
QueryAddrs == {[client |-> c, port |-> 0] : c \in QueryClients}

InitRules ==
    /\ InitRuleVars /\ InitParseVars /\ InitRegVars
    /\ pc = "load"
    /\ q = NoQuery

\* g_rules.addRule(t, output, input)
AddRule(t, output, input) ==
    /\ pc = "load"
    /\ BagCardinality(m_allowRules) + BagCardinality(m_disallowRules) < MaxRules
    /\ m_allowRules' = addRule(g_rules, t, output, input)[1]
    /\ m_disallowRules' = addRule(g_rules, t, output, input)[2]
    /\ q' = [op |-> "addRule", type |-> t, output |-> output, input |-> input]
    /\ UNCHANGED <<pc, parseVars, regVars>>

\* the rule set is complete: it is read-only from here on
RulesLoaded ==
    /\ pc = "load"
    /\ pc' = "query"
    /\ q' = [op |-> "hasRules", result |-> hasRules(g_rules)]
    /\ UNCHANGED <<ruleVars, parseVars, regVars>>

\* g_rules.isConnectionAllowed(output, input, minimumStrength)
IsConnectionAllowed(output, input, minimumStrength) ==
    /\ pc = "query"
    /\ q' = [op |-> "isConnectionAllowed", output |-> output, input |-> input,
             minimumStrength |-> minimumStrength,
             result |-> isConnectionAllowed(g_rules, output, input, minimumStrength)]
    /\ UNCHANGED <<ruleVars, pc, parseVars, regVars>>

NextRules ==
    \/ \E t \in RuleTypes, output \in RulePatterns, input \in RulePatterns :
          AddRule(t, output, input)
    \/ RulesLoaded
    \/ \E output \in QueryAddrs, input \in QueryAddrs, m \in Strengths :
          IsConnectionAllowed(output, input, m)

SpecRules == InitRules /\ [][NextRules]_vars

---------------------------------------------------------------------------
(* main() and parseRuleFile() *)

DIR_INPUT  == 1
DIR_OUTPUT == 2
DIR_DUPLEX == 3

t_allow == <<"a", "l", "l", "o", "w", "]">>
t_disallow == <<"d", "i", "s", "a", "l", "l", "o", "w", "]">>
t_duplex == <<"<", "-", ">">>
t_output == <<"-", ">">>
t_input == <<"<", "-">>

\* "[allow]\n"
l_allow ==
    <<"[", "a", "l", "l", "o", "w", "]", "\n">>
\* "[disallow]\n"
l_disallow ==
    <<"[", "d", "i", "s", "a", "l", "l", "o", "w", "]", "\n">>
\* "[midi]\n"
l_other ==
    <<"[", "m", "i", "d", "i", "]", "\n">>
\* "Synth -> *\n"
l_SynthToAny ==
    <<"S", "y", "n", "t", "h", " ", "-", ">", " ", "*", "\n">>
\* "Synth -> Recorder\n"
l_SynthToRecorder ==
    <<"S", "y", "n", "t", "h", " ", "-", ">", " ", "R", "e", "c", "o", "r", "d", "e", "r", "\n">>
\* "* -> *\n"
l_AnyToAny ==
    <<"*", " ", "-", ">", " ", "*", "\n">>
\* "DeviceX -> *\n"
l_DeviceXToAny ==
    <<"D", "e", "v", "i", "c", "e", "X", " ", "-", ">", " ", "*", "\n">>
\* "Foo*Bar <-> *\n"
l_mixed ==
    <<"F", "o", "o", "*", "B", "a", "r", " ", "<", "-", ">", " ", "*", "\n">>
\* "Synth\n"
l_noSpecifier ==
    <<"S", "y", "n", "t", "h", "\n">>
\* "  # any\n"
l_comment ==
    <<" ", " ", "#", " ", "a", "n", "y", "\n">>
\* "-> Synth\n"
l_noLeft ==
    <<"-", ">", " ", "S", "y", "n", "t", "h", "\n">>
\* " Recorder<-Synth # in"
l_RecorderFromSynth ==
    <<" ", "R", "e", "c", "o", "r", "d", "e", "r", "<", "-", "S", "y", "n", "t", "h", " ", "#", " ", "i", "n">>

\* the lines fgets can return from /etc/amidiauto.conf
LineSet == {l_allow, l_disallow, l_other, l_SynthToAny, l_SynthToRecorder,
            l_AnyToAny, l_DeviceXToAny, l_mixed, l_noSpecifier, l_comment,
            l_noLeft, l_RecorderFromSynth}

\* isspace() in the C locale (the vertical tab, which no line of LineSet
\* holds, cannot be written as a TLA+ character)
isspace(c) == c \in {" ", "\t", "\n", "\r", "\f"}

\* the first loop of trimWhiteSpace: end walks back from the last character
\* while it is a space and lies after the first character
RECURSIVE trimEnd(_)
trimEnd(str) ==
    IF Len(str) > 1 /\ isspace(str[Len(str)])
    THEN trimEnd(SubSeq(str, 1, Len(str) - 1))
    ELSE str

\* the second loop of trimWhiteSpace: str skips the leading spaces
RECURSIVE trimStart(_)
trimStart(str) ==
    IF Len(str) > 0 /\ isspace(str[1]) THEN trimStart(Tail(str)) ELSE str

trimWhiteSpace_EndOnly(str) == trimEnd(str)

\* trimWhiteSpace(str).  For an empty str the code forms the pointer str-1,
\* never reads through it, and writes the terminator back at str[0].
trimWhiteSpace(str) == trimStart(trimEnd(str))

\* the text before the comment marker
cutComment(l) ==
    IF StrStr(l, <<"#">>) = 0 THEN l ELSE SubSeq(l, 1, StrStr(l, <<"#">>) - 1)

ruleCalls_OutputSwapped(t, dir, left, right) ==
    CASE dir = DIR_DUPLEX ->
            IF left # right THEN << <<t, left, right>>, <<t, right, left>> >>
            ELSE << <<t, left, right>> >>
      [] dir = DIR_INPUT -> << <<t, right, left>> >>
      [] dir = DIR_OUTPUT -> << <<t, right, left>> >>

\* the addRule calls of the switch (dir) at the end of the loop body
ruleCalls(t, dir, left, right) ==
    CASE dir = DIR_DUPLEX ->
            IF left # right THEN << <<t, left, right>>, <<t, right, left>> >>
            ELSE << <<t, left, right>> >>
      [] dir = DIR_INPUT -> << <<t, right, left>> >>
      [] dir = DIR_OUTPUT -> << <<t, left, right>> >>

parseLine_UnknownSectionKept(t, l) ==
    LET line == trimWhiteSpace(cutComment(l))
        dir == IF StrStr(line, t_duplex) # 0 THEN DIR_DUPLEX
               ELSE IF StrStr(line, t_output) # 0 THEN DIR_OUTPUT
               ELSE IF StrStr(line, t_input) # 0 THEN DIR_INPUT
               ELSE 0
        specifier == CASE dir = DIR_DUPLEX -> StrStr(line, t_duplex)
                       [] dir = DIR_OUTPUT -> StrStr(line, t_output)
                       [] dir = DIR_INPUT -> StrStr(line, t_input)
                       [] OTHER -> 0
        left == trimWhiteSpace(SubSeq(line, 1, specifier - 1))
        right == trimWhiteSpace(SubSeq(line,
                     specifier + (IF dir = DIR_DUPLEX THEN 3 ELSE 2), Len(line)))
    IN IF Len(line) = 0 THEN <<t, <<>>>>
       ELSE IF line[1] = "["
            THEN IF Tail(line) = t_allow THEN <<TYPE_ALLOW, <<>>>>
                 ELSE IF Tail(line) = t_disallow THEN <<TYPE_DISALLOW, <<>>>>
                 ELSE <<t, <<>>>>
       ELSE IF t = TYPE_UNKNOWN THEN <<t, <<>>>>
       ELSE IF dir = 0 THEN <<t, <<>>>>
       ELSE IF Len(left) = 0 \/ Len(right) = 0 THEN <<t, <<>>>>
       ELSE <<t, ruleCalls(t, dir, left, right)>>

\* one pass of the while loop of parseRuleFile over the line l that fgets
\* returned, the active section being t: <<the section after the line, the
\* addRule calls made>>
parseLine(t, l) ==
    LET line == trimWhiteSpace(cutComment(l))
        dir == IF StrStr(line, t_duplex) # 0 THEN DIR_DUPLEX
               ELSE IF StrStr(line, t_output) # 0 THEN DIR_OUTPUT
               ELSE IF StrStr(line, t_input) # 0 THEN DIR_INPUT
               ELSE 0
        specifier == CASE dir = DIR_DUPLEX -> StrStr(line, t_duplex)
                       [] dir = DIR_OUTPUT -> StrStr(line, t_output)
                       [] dir = DIR_INPUT -> StrStr(line, t_input)
                       [] OTHER -> 0
        left == trimWhiteSpace(SubSeq(line, 1, specifier - 1))
        right == trimWhiteSpace(SubSeq(line,
                     specifier + (IF dir = DIR_DUPLEX THEN 3 ELSE 2), Len(line)))
    IN IF Len(line) = 0 THEN <<t, <<>>>>
       ELSE IF line[1] = "["
            THEN IF Tail(line) = t_allow THEN <<TYPE_ALLOW, <<>>>>
                 ELSE IF Tail(line) = t_disallow THEN <<TYPE_DISALLOW, <<>>>>
                 ELSE <<TYPE_UNKNOWN, <<>>>>
       ELSE IF t = TYPE_UNKNOWN THEN <<t, <<>>>>
       ELSE IF dir = 0 THEN <<t, <<>>>>
       ELSE IF Len(left) = 0 \/ Len(right) = 0 THEN <<t, <<>>>>
       ELSE <<t, ruleCalls(t, dir, left, right)>>

\* the rule collections after the addRule calls of one line, in order
RECURSIVE addRules(_, _)
addRules(rules, calls) ==
    IF calls = <<>> THEN rules
    ELSE addRules(addRule(rules, calls[1][1], calls[1][2], calls[1][3]), Tail(calls))

InitMain ==
    /\ InitRuleVars /\ InitParseVars /\ InitRegVars
    /\ pc = "open"
    /\ q = NoQuery

\* fopen fails: parseRuleFile returns -ENOENT
OpenFails ==
    /\ pc = "open"
    /\ pc' = "default"
    /\ UNCHANGED <<ruleVars, q, parseVars, regVars>>

\* fopen succeeds
OpenSucceeds ==
    /\ pc = "open"
    /\ pc' = "parse"
    /\ UNCHANGED <<ruleVars, q, parseVars, regVars>>

\* fgets returns the line l: one pass of the loop
ReadLine(l) ==
    /\ pc = "parse"
    /\ Len(consumed) < MaxLines
    /\ type' = parseLine(type, l)[1]
    /\ addCalls' = parseLine(type, l)[2]
    /\ m_allowRules' = addRules(g_rules, parseLine(type, l)[2])[1]
    /\ m_disallowRules' = addRules(g_rules, parseLine(type, l)[2])[2]
    /\ consumed' = Append(consumed, l)
    /\ UNCHANGED <<pc, q, regVars>>

\* feof or fgets returning NULL: fclose, return 0
EndOfFile ==
    /\ pc = "parse"
    /\ pc' = "default"
    /\ addCalls' = <<>>
    /\ UNCHANGED <<ruleVars, q, type, consumed, regVars>>

installDefault_Never(rules) == rules

\* main: if (!g_rules.hasRules()) g_rules.addRule(TYPE_ALLOW, "*", "*")
installDefault(rules) ==
    IF ~hasRules(rules) THEN addRule(rules, TYPE_ALLOW, s_star, s_star) ELSE rules

\* main, from the return of parseRuleFile to the call of run()
InstallDefault ==
    /\ pc = "default"
    /\ m_allowRules' = installDefault(g_rules)[1]
    /\ m_disallowRules' = installDefault(g_rules)[2]
    /\ pc' = "run"
    /\ UNCHANGED <<q, parseVars, regVars>>

NextMain ==
    \/ OpenFails
    \/ OpenSucceeds
    \/ \E l \in LineSet : ReadLine(l)
    \/ EndOfFile
    \/ InstallDefault

SpecMain == InitMain /\ [][NextMain]_vars

---------------------------------------------------------------------------
(* The endpoint registry: Client, g_swClients, g_hwClients *)

TYPE_SOFTWARE == 0
TYPE_HARDWARE == 1
CLIENT_SOFTWARE == 0
CLIENT_HARDWARE == 1

t_MidiThrough == <<"M", "i", "d", "i", " ", "T", "h", "r", "o", "u", "g", "h">>
t_TouchOSCBridge == <<"T", "o", "u", "c", "h", "O", "S", "C", " ", "B", "r", "i", "d", "g", "e">>
n_TouchOSCPort == <<"T", "o", "u", "c", "h", "O", "S", "C", " ", "B", "r", "i", "d", "g", "e", " ", "1">>
n_Port == <<"p", "o", "r", "t">>

\* what getInput() / getOutput() return for a slot that is not initialized
NoAddr == [client |-> -1, port |-> -1]

\* Client(clientId): both slots uninitialized
NewClient == [input |-> NoAddr, output |-> NoAddr]

\* whether bit is set in the PortDir dir
HasDir(dir, bit) == (dir \div bit) % 2 = 1

\* the keys of a clients_t in the order its iterators visit them
RECURSIVE inOrder(_)
inOrder(S) ==
    IF S = {} THEN <<>>
    ELSE LET least == CHOOSE x \in S : \A y \in S : x <= y
         IN <<least>> \o inOrder(S \ {least})

\* getClient(list, clientId): the list with the client's record in it
getClient(list, clientId) ==
    IF clientId \in DOMAIN list THEN list
    ELSE [c \in DOMAIN list \cup {clientId} |->
             IF c = clientId THEN NewClient ELSE list[c]]

findClientForPort_HardwareFirst(sw, hw, addr) ==
    IF addr.client \in DOMAIN hw
    THEN [found |-> TRUE, type |-> CLIENT_HARDWARE, client |-> hw[addr.client]]
    ELSE IF addr.client \in DOMAIN sw
    THEN [found |-> TRUE, type |-> CLIENT_SOFTWARE, client |-> sw[addr.client]]
    ELSE [found |-> FALSE, type |-> CLIENT_SOFTWARE, client |-> NewClient]

findClientForPort_SoftwareOnly(sw, hw, addr) ==
    IF addr.client \in DOMAIN sw
    THEN [found |-> TRUE, type |-> CLIENT_SOFTWARE, client |-> sw[addr.client]]
    ELSE [found |-> FALSE, type |-> CLIENT_SOFTWARE, client |-> NewClient]

\* findClientForPort(addr, &type): g_swClients is searched first
findClientForPort(sw, hw, addr) ==
    IF addr.client \in DOMAIN sw
    THEN [found |-> TRUE, type |-> CLIENT_SOFTWARE, client |-> sw[addr.client]]
    ELSE IF addr.client \in DOMAIN hw
    THEN [found |-> TRUE, type |-> CLIENT_HARDWARE, client |-> hw[addr.client]]
    ELSE [found |-> FALSE, type |-> CLIENT_SOFTWARE, client |-> NewClient]

\* portGetDir(portInfo)
portGetDir(portInfo) ==
    (IF "READ" \in portInfo.caps THEN DIR_OUTPUT ELSE 0)
    + (IF "WRITE" \in portInfo.caps THEN DIR_INPUT ELSE 0)

portGetType_NoOverride(portInfo) ==
    IF portInfo.app THEN TYPE_SOFTWARE ELSE TYPE_HARDWARE

\* portGetType(portInfo)
portGetType(portInfo) ==
    IF StrNEq(t_TouchOSCBridge, portInfo.name, 15) THEN TYPE_HARDWARE
    ELSE IF portInfo.app THEN TYPE_SOFTWARE ELSE TYPE_HARDWARE

portAddIgnores_OnlyNoExport(portInfo) == "NO_EXPORT" \in portInfo.caps

\* the early returns of portAdd
portAddIgnores(portInfo) ==
    \/ "NO_EXPORT" \in portInfo.caps
    \/ portInfo.addr.client = SND_SEQ_CLIENT_SYSTEM
    \/ ClientNameOf(portInfo.addr.client) = NULL
    \/ StrNEq(ClientNameOf(portInfo.addr.client), t_MidiThrough, 12)

setSlots_Overwrite(client, addr, dir) ==
    [input |-> IF HasDir(dir, DIR_INPUT) THEN addr ELSE client.input,
     output |-> IF HasDir(dir, DIR_OUTPUT) THEN addr ELSE client.output]

\* the record after lines 408-423 of portAdd: a slot is set only when it is
\* not yet initialized
setSlots(client, addr, dir) ==
    [input |-> IF HasDir(dir, DIR_INPUT) /\ client.input = NoAddr
               THEN addr ELSE client.input,
     output |-> IF HasDir(dir, DIR_OUTPUT) /\ client.output = NoAddr
                THEN addr ELSE client.output]

\* gotAdded at the end of portAdd
gotAdded(client, dir) ==
    \/ (HasDir(dir, DIR_OUTPUT) /\ client.output = NoAddr)
    \/ (HasDir(dir, DIR_INPUT) /\ client.input = NoAddr)

\* portAdd(portInfo): the two maps after it and its return value
portAdd(sw, hw, portInfo) ==
    IF portAddIgnores(portInfo) THEN [sw |-> sw, hw |-> hw, gotAdded |-> FALSE]
    ELSE LET software == portGetType(portInfo) = TYPE_SOFTWARE
             list == getClient(IF software THEN sw ELSE hw, portInfo.addr.client)
             client == list[portInfo.addr.client]
             after == setSlots(client, portInfo.addr, portGetDir(portInfo))
             list2 == [list EXCEPT ![portInfo.addr.client] = after]
         IN [sw |-> IF software THEN list2 ELSE sw,
             hw |-> IF software THEN hw ELSE list2,
             gotAdded |-> gotAdded(client, portGetDir(portInfo))]

clearSlots_WholeClient(client, addr) == [input |-> NoAddr, output |-> NoAddr]

\* the record after lines 435-442 of portRemove
clearSlots(client, addr) ==
    [input |-> IF client.input # NoAddr /\ client.input = addr
               THEN NoAddr ELSE client.input,
     output |-> IF client.output # NoAddr /\ client.output = addr
                THEN NoAddr ELSE client.output]

\* portRemove(addr): the two maps after it
portRemove(sw, hw, addr) ==
    LET f == findClientForPort(sw, hw, addr)
    IN IF ~f.found THEN [sw |-> sw, hw |-> hw]
       ELSE IF f.type = CLIENT_SOFTWARE
            THEN [sw |-> [sw EXCEPT ![addr.client] = clearSlots(@, addr)], hw |-> hw]
            ELSE [sw |-> sw, hw |-> [hw EXCEPT ![addr.client] = clearSlots(@, addr)]]

\* the connect() calls of one pass of the inner loop of portAutoConnect
autoConnectClient(rules, client, addr, dir, strength) ==
    (IF HasDir(dir, DIR_INPUT) /\ client.output # NoAddr
        /\ isConnectionAllowed(rules, client.output, addr, strength)
     THEN << <<client.output, addr>> >> ELSE <<>>)
    \o
    (IF HasDir(dir, DIR_OUTPUT) /\ client.input # NoAddr
        /\ isConnectionAllowed(rules, addr, client.input, strength)
     THEN << <<addr, client.input>> >> ELSE <<>>)

\* the connect() calls of the inner loop of portAutoConnect over one list,
\* keys being the clients still to visit
RECURSIVE autoConnectList(_, _, _, _, _, _)
autoConnectList(rules, list, keys, addr, dir, strength) ==
    IF keys = <<>> THEN <<>>
    ELSE autoConnectClient(rules, list[keys[1]], addr, dir, strength)
         \o autoConnectList(rules, list, Tail(keys), addr, dir, strength)

autoConnectStrengths_SameEverywhere(t) ==
    <<STRENGTH_VERY_VAGUE, STRENGTH_VERY_VAGUE>>

\* strengths[2] of portAutoConnect: the minimum strength for g_swClients and
\* for g_hwClients
autoConnectStrengths(t) ==
    <<IF t = CLIENT_SOFTWARE THEN STRENGTH_SPECIFIC ELSE STRENGTH_VERY_VAGUE,
      IF t = CLIENT_SOFTWARE THEN STRENGTH_VERY_VAGUE ELSE STRENGTH_SPECIFIC>>

\* portAutoConnect(addr, dir): whether assert(client) fails, and the
\* connect() calls in order
portAutoConnect(rules, sw, hw, addr, dir) ==
    LET f == findClientForPort(sw, hw, addr)
        strengths == autoConnectStrengths(f.type)
    IN IF ~f.found THEN [assertFailed |-> TRUE, connects |-> <<>>]
       ELSE [assertFailed |-> FALSE,
             connects |->
                autoConnectList(rules, sw, inOrder(DOMAIN sw), addr, dir, strengths[1])
                \o autoConnectList(rules, hw, inOrder(DOMAIN hw), addr, dir, strengths[2])]

connectPair_NoHandled(rules, st, aClient, bClient, minimumStrength) ==
    LET first == bClient.input # NoAddr /\ aClient.output # NoAddr
                 /\ isConnectionAllowed(rules, aClient.output, bClient.input,
                                        minimumStrength)
        st1 == IF first
               THEN <<st[1], Append(st[2], <<aClient.output, bClient.input>>)>>
               ELSE st
        second == bClient.output # NoAddr /\ aClient.input # NoAddr
                  /\ isConnectionAllowed(rules, bClient.output, aClient.input,
                                         minimumStrength)
    IN IF second
       THEN <<st1[1], Append(st1[2], <<bClient.output, aClient.input>>)>>
       ELSE st1

\* one pass of the inner loop of portsConnectAll: the state <<handled,
\* connect() calls so far>> after the pair (aClient, bClient)
connectPair(rules, st, aClient, bClient, minimumStrength) ==
    LET first == bClient.input # NoAddr /\ aClient.output # NoAddr
                 /\ <<aClient.output, bClient.input>> \notin st[1]
                 /\ isConnectionAllowed(rules, aClient.output, bClient.input,
                                        minimumStrength)
        st1 == IF first
               THEN <<st[1] \cup {<<aClient.output, bClient.input>>},
                      Append(st[2], <<aClient.output, bClient.input>>)>>
               ELSE st
        second == bClient.output # NoAddr /\ aClient.input # NoAddr
                  /\ <<bClient.output, aClient.input>> \notin st1[1]
                  /\ isConnectionAllowed(rules, bClient.output, aClient.input,
                                         minimumStrength)
    IN IF second
       THEN <<st1[1] \cup {<<bClient.output, aClient.input>>},
              Append(st1[2], <<bClient.output, aClient.input>>)>>
       ELSE st1

\* the inner loop of portsConnectAll for aClient over the clients of listB
\* still to visit
RECURSIVE connectInner(_, _, _, _, _, _)
connectInner(rules, st, aClient, listB, keysB, minimumStrength) ==
    IF keysB = <<>> THEN st
    ELSE connectInner(rules,
                      connectPair(rules, st, aClient, listB[keysB[1]], minimumStrength),
                      aClient, listB, Tail(keysB), minimumStrength)

\* the outer loop of portsConnectAll over the clients of listA still to visit
RECURSIVE connectOuter(_, _, _, _, _, _)
connectOuter(rules, st, listA, keysA, listB, minimumStrength) ==
    IF keysA = <<>> THEN st
    ELSE LET aClient == listA[keysA[1]]
         IN connectOuter(rules,
                IF aClient.input = NoAddr /\ aClient.output = NoAddr THEN st
                ELSE connectInner(rules, st, aClient, listB, inOrder(DOMAIN listB),
                                  minimumStrength),
                listA, Tail(keysA), listB, minimumStrength)

\* portsConnectAll(listA, listB, minimumStrength): its connect() calls in order
portsConnectAll(rules, listA, listB, minimumStrength) ==
    connectOuter(rules, <<{}, <<>>>>, listA, inOrder(DOMAIN listA), listB,
                 minimumStrength)[2]

connectEverything_AllVeryVague(rules, sw, hw) ==
    portsConnectAll(rules, hw, sw, STRENGTH_VERY_VAGUE)
    \o portsConnectAll(rules, hw, hw, STRENGTH_VERY_VAGUE)
    \o portsConnectAll(rules, sw, sw, STRENGTH_VERY_VAGUE)

\* the three sweeps at the end of portsInit
connectEverything(rules, sw, hw) ==
    portsConnectAll(rules, hw, sw, STRENGTH_VERY_VAGUE)
    \o portsConnectAll(rules, hw, hw, STRENGTH_SPECIFIC)
    \o portsConnectAll(rules, sw, sw, STRENGTH_SPECIFIC)

\* the portAdd calls of the query loop of portsInit over the ports the
\* sequencer lists, in its order
RECURSIVE addAll(_, _)
addAll(maps, infos) ==
    IF infos = <<>> THEN maps
    ELSE LET r == portAdd(maps.sw, maps.hw, infos[1])
         IN addAll([sw |-> r.sw, hw |-> r.hw], Tail(infos))

---------------------------------------------------------------------------
(* Spec: run() - portsInit() and the event loop, the rules being those main *)
(* loaded from one of ConfigFiles                                           *)

File_SynthRecorder == <<l_allow, l_SynthToAny, l_disallow, l_SynthToRecorder>>
File_AllAndSynthRecorder == <<l_allow, l_AnyToAny, l_SynthToRecorder>>

l_SynthToSynth ==
    <<"S", "y", "n", "t", "h", " ", "-", ">", " ", "S", "y", "n", "t", "h", "\n">>

File_SynthSelf == <<l_allow, l_SynthToSynth, l_SynthToRecorder>>

File_AllSynthSelfRecorder == <<l_allow, l_AnyToAny, l_SynthToSynth, l_SynthToRecorder>>

\* the configuration files run() is explored under; the empty file leaves the
\* default rule Allow(*,*), the other one adds to it rules that are Specific
\* for the pairs (client 1, client 1) and (client 1, client 2)
ConfigFiles == {<<>>, File_AllSynthSelfRecorder}

\* parseRuleFile over the lines of a file: <<active section, rules>> at the end
RECURSIVE parseFile(_, _)
parseFile(st, lines) ==
    IF lines = <<>> THEN st
    ELSE parseFile(<<parseLine(st[1], lines[1])[1],
                     addRules(st[2], parseLine(st[1], lines[1])[2])>>,
                   Tail(lines))

\* the ports the registry can track: ports 0..MaxPort of client 1
\* ("MySynth Port") and port 0 of client 2 ("Recorder In")
TrackAddrs ==
    {[client |-> 1, port |-> p] : p \in 0..MaxPort} \cup {[client |-> 2, port |-> 0]}

PortInfo(addr, caps, app, name) ==
    [addr |-> addr, caps |-> caps, app |-> app, name |-> name]

\* what the sequencer can report for the port at addr: client 1 has input,
\* output and duplex ports of application and of hardware type, a port with
\* neither capability (port 0) and a "TouchOSC Bridge" port (port MaxPort);
\* client 2 has a duplex port of either type
InfosAt(addr) ==
    IF addr.client = 1
    THEN {PortInfo(addr, c, app, n_Port) :
             c \in {{"READ"}, {"WRITE"}, {"READ", "WRITE"}}, app \in BOOLEAN}
         \cup (IF addr.port = 0 THEN {PortInfo(addr, {}, TRUE, n_Port)} ELSE {})
         \cup (IF addr.port = MaxPort
               THEN {PortInfo(addr, {"READ", "WRITE"}, TRUE, n_TouchOSCPort)}
               ELSE {})
    ELSE {PortInfo(addr, {"READ", "WRITE"}, app, n_Port) : app \in BOOLEAN}

Absent == [caps |-> {"ABSENT"}]

\* the ports of a population in the order snd_seq_query_next_client and
\* snd_seq_query_next_port list them
RECURSIVE listPorts(_, _)
listPorts(pop, keys) ==
    IF keys = <<>> THEN <<>>
    ELSE LET a == [client |-> keys[1] \div 256, port |-> keys[1] % 256]
         IN (IF pop[a] = Absent THEN <<>> ELSE <<pop[a]>>)
            \o listPorts(pop, Tail(keys))

SystemAnnounce ==
    [addr |-> [client |-> 0, port |-> 1], caps |-> {"READ"}, app |-> FALSE,
     name |-> n_Port]

\* ports portAdd ignores: System:Announce, a port that is not exported, a
\* Midi Through port, and a port of a client that is gone when its client
\* info is asked for
IgnoredInfos ==
    {SystemAnnounce,
     [addr |-> [client |-> 1, port |-> 0], caps |-> {"READ", "WRITE", "NO_EXPORT"},
      app |-> TRUE, name |-> n_Port],
     [addr |-> [client |-> 3, port |-> 0], caps |-> {"READ", "WRITE"},
      app |-> FALSE, name |-> n_Port],
     [addr |-> [client |-> 6, port |-> 0], caps |-> {"READ", "WRITE"},
      app |-> TRUE, name |-> n_Port]}

PortInfos == UNION {InfosAt(addr) : addr \in TrackAddrs} \cup IgnoredInfos

\* the ports the sequencer can hold when portsInit runs
Populations ==
    {pop \in [TrackAddrs -> PortInfos \cup {Absent}] :
        \A a \in TrackAddrs : pop[a] \in InfosAt(a) \cup {Absent}}

\* the addresses of the port-exit events
ExitAddrs == TrackAddrs \cup {[client |-> 6, port |-> 0]}

InitRun ==
    /\ \E f \in ConfigFiles :
          /\ consumed = f
          /\ type = parseFile(<<TYPE_UNKNOWN, <<EmptyBag, EmptyBag>>>>, f)[1]
          /\ m_allowRules =
                installDefault(parseFile(<<TYPE_UNKNOWN, <<EmptyBag, EmptyBag>>>>, f)[2])[1]
          /\ m_disallowRules =
                installDefault(parseFile(<<TYPE_UNKNOWN, <<EmptyBag, EmptyBag>>>>, f)[2])[2]
    /\ addCalls = <<>>
    /\ InitRegVars
    /\ pc = "init"
    /\ q = NoQuery

\* portsInit(), the sequencer holding the ports of pop
PortsInit(pop) ==
    /\ pc = "init"
    /\ LET infos == <<SystemAnnounce>>
                    \o listPorts(pop, inOrder({a.client * 256 + a.port : a \in DOMAIN pop}))
           maps == addAll([sw |-> g_swClients, hw |-> g_hwClients], infos)
       IN /\ g_swClients' = maps.sw
          /\ g_hwClients' = maps.hw
          /\ connects' = connectEverything(g_rules, maps.sw, maps.hw)
    /\ last' = [op |-> "portsInit"]
    /\ pc' = "loop"
    /\ UNCHANGED <<ruleVars, q, parseVars>>

\* handleSeqEvent, SND_SEQ_EVENT_PORT_START, snd_seq_get_any_port_info
\* returning portInfo
HandlePortStart(portInfo) ==
    /\ pc = "loop"
    /\ LET r == portAdd(g_swClients, g_hwClients, portInfo)
           c == portAutoConnect(g_rules, r.sw, r.hw, portInfo.addr, portGetDir(portInfo))
       IN /\ g_swClients' = r.sw
          /\ g_hwClients' = r.hw
          /\ connects' = IF r.gotAdded THEN c.connects ELSE <<>>
          /\ last' = [op |-> "portStart", portInfo |-> portInfo,
                      gotAdded |-> r.gotAdded,
                      assertFailed |-> r.gotAdded /\ c.assertFailed]
    /\ UNCHANGED <<ruleVars, pc, q, parseVars>>

\* handleSeqEvent, SND_SEQ_EVENT_PORT_START, snd_seq_get_any_port_info failing
HandlePortStartNoInfo ==
    /\ pc = "loop"
    /\ last' = [op |-> "portStartNoInfo"]
    /\ connects' = <<>>
    /\ UNCHANGED <<ruleVars, pc, q, parseVars, g_swClients, g_hwClients>>

\* handleSeqEvent, SND_SEQ_EVENT_PORT_EXIT
HandlePortExit(addr) ==
    /\ pc = "loop"
    /\ g_swClients' = portRemove(g_swClients, g_hwClients, addr).sw
    /\ g_hwClients' = portRemove(g_swClients, g_hwClients, addr).hw
    /\ last' = [op |-> "portExit", addr |-> addr,
                found |-> findClientForPort(g_swClients, g_hwClients, addr).found,
                client |-> findClientForPort(g_swClients, g_hwClients, addr).client]
    /\ connects' = <<>>
    /\ UNCHANGED <<ruleVars, pc, q, parseVars>>

Next ==
    \/ \E pop \in Populations : PortsInit(pop)
    \/ \E portInfo \in PortInfos : HandlePortStart(portInfo)
    \/ HandlePortStartNoInfo
    \/ \E addr \in ExitAddrs : HandlePortExit(addr)

Spec == InitRun /\ [][Next]_vars

---------------------------------------------------------------------------
(* SpecPortsInit: portsInit() alone, over larger startup populations *)

StartupFiles == {<<>>, File_AllAndSynthRecorder, File_SynthSelf}

\* port 0 of the clients 1 ("MySynth Port"), 2 ("Recorder In"), 4 ("USB
\* DeviceX 1") and 5 ("Other App"), and port 1 of client 1
StartupAddrs ==
    {[client |-> c, port |-> 0] : c \in {1, 2, 4, 5}} \cup {[client |-> 1, port |-> 1]}

\* what the sequencer can list for the port at addr when portsInit runs
StartupInfosAt(addr) ==
    IF addr.port = 0
    THEN {PortInfo(addr, {"READ", "WRITE"}, TRUE, n_Port),
          PortInfo(addr, {"READ", "WRITE"}, FALSE, n_Port),
          PortInfo(addr, {"WRITE"}, TRUE, n_Port),
          PortInfo(addr, {"READ"}, FALSE, n_Port)}
    ELSE {PortInfo(addr, {"READ", "WRITE"}, TRUE, n_Port),
          PortInfo(addr, {"READ", "WRITE"}, FALSE, n_Port)}

StartupPopulations ==
    {pop \in [StartupAddrs ->
                 UNION {StartupInfosAt(a) : a \in StartupAddrs} \cup {Absent}] :
        \A a \in StartupAddrs : pop[a] \in StartupInfosAt(a) \cup {Absent}}

InitPortsInit ==
    /\ \E f \in StartupFiles :
          /\ consumed = f
          /\ type = parseFile(<<TYPE_UNKNOWN, <<EmptyBag, EmptyBag>>>>, f)[1]
          /\ m_allowRules =
                installDefault(parseFile(<<TYPE_UNKNOWN, <<EmptyBag, EmptyBag>>>>, f)[2])[1]
          /\ m_disallowRules =
                installDefault(parseFile(<<TYPE_UNKNOWN, <<EmptyBag, EmptyBag>>>>, f)[2])[2]
    /\ addCalls = <<>>
    /\ InitRegVars
    /\ pc = "init"
    /\ q = NoQuery

NextPortsInit == \E pop \in StartupPopulations : PortsInit(pop)

SpecPortsInit == InitPortsInit /\ [][NextPortsInit]_vars

---------------------------------------------------------------------------
(* The rule strengths as the specification words them *)

IsWildcard(p) == p = <<"*">>

IsSubstringOf(p, name) ==
    \E a \in 0..Len(name), b \in 0..Len(name) : SubSeq(name, a + 1, b) = p

SingleRuleStrength(rule, outputName, inputName) ==
    CASE IsWildcard(rule[1]) /\ IsWildcard(rule[2]) -> STRENGTH_VERY_VAGUE
      [] IsWildcard(rule[1]) /\ ~IsWildcard(rule[2]) /\ IsSubstringOf(rule[2], inputName)
            -> STRENGTH_VAGUE
      [] ~IsWildcard(rule[1]) /\ IsWildcard(rule[2]) /\ IsSubstringOf(rule[1], outputName)
            -> STRENGTH_VAGUE
      [] /\ ~IsWildcard(rule[1]) /\ ~IsWildcard(rule[2])
         /\ IsSubstringOf(rule[1], outputName) /\ IsSubstringOf(rule[2], inputName)
            -> STRENGTH_SPECIFIC
      [] OTHER -> STRENGTH_NONE

\* the greatest single-rule strength of a collection, None when it is empty
CollectionStrength(rules, output, input) ==
    LET S == {SingleRuleStrength(r, getClientName(output), getClientName(input)) :
                 r \in BagToSet(rules)}
    IN IF S = {} THEN STRENGTH_NONE ELSE CHOOSE m \in S : \A x \in S : x <= m

AllowAll == <<SetToBag({<<s_star, s_star>>}), EmptyBag>>
IsMixedPattern(p) == p # NULL /\ HasChar(p, "*") /\ Len(p) > 1

---------------------------------------------------------------------------
(* Claims on ConnectionRules (SpecRules) *)

\* C1: isConnectionAllowed returns true exactly when the Allow strength of the
\* name pair reaches the minimum strength and is at least the Disallow
\* strength; equal strengths that reach the minimum are allowed.
C1_IsAllowedIff ==
    q.op = "isConnectionAllowed" =>
        LET allowStrength == CollectionStrength(m_allowRules, q.output, q.input)
            disallowStrength == CollectionStrength(m_disallowRules, q.output, q.input)
        IN q.result <=> (allowStrength >= q.minimumStrength
                         /\ allowStrength >= disallowStrength)

C1_Witness ==
    /\ q.op = "isConnectionAllowed"
    /\ q.result
    /\ CollectionStrength(m_allowRules, q.output, q.input) = STRENGTH_VAGUE
    /\ CollectionStrength(m_disallowRules, q.output, q.input) = STRENGTH_VAGUE
    /\ q.minimumStrength = STRENGTH_VAGUE

\* C2: the strength evaluate computes for a collection and a name pair is the
\* maximum of the single-rule strengths (VeryVague for two wildcards, Vague for
\* one wildcard and one matching literal, Specific for two matching literals,
\* None otherwise), and None for an empty collection.
C2_CollectionStrengthIsMax ==
    \A output \in QueryAddrs, input \in QueryAddrs :
        /\ evaluate(m_allowRules, output, input)
              = CollectionStrength(m_allowRules, output, input)
        /\ evaluate(m_disallowRules, output, input)
              = CollectionStrength(m_disallowRules, output, input)

C2_Witness ==
    /\ q.op = "isConnectionAllowed"
    /\ BagCardinality(m_allowRules) = 2
    /\ <<s_star, s_star>> \in BagToSet(m_allowRules)
    /\ <<s_DeviceX, s_DeviceX>> \in BagToSet(m_allowRules)
    /\ evaluate(m_allowRules, q.output, q.input) = STRENGTH_SPECIFIC
    /\ evaluate(m_disallowRules, q.output, q.input) = STRENGTH_NONE

IsAllowDisallowAll ==
    /\ BagToSet(m_allowRules) = {<<s_star, s_star>>}
    /\ BagToSet(m_disallowRules) = {<<s_star, s_star>>}

\* C4 as claimed: with Allow(*,*) and Disallow(*,*) every pair is disallowed at
\* minimum strength VeryVague.
C4_AsClaimed ==
    (IsAllowDisallowAll /\ q.op = "isConnectionAllowed"
        /\ q.minimumStrength = STRENGTH_VERY_VAGUE) => ~q.result

\* C4 amended: with Allow(*,*) and Disallow(*,*) both strengths are VeryVague
\* for every pair and the tie goes to allow: isConnectionAllowed returns true
\* for every pair at minimum strength VeryVague.
C4_TieAllows ==
    (IsAllowDisallowAll /\ q.op = "isConnectionAllowed"
        /\ q.minimumStrength = STRENGTH_VERY_VAGUE) => q.result

C4_Witness ==
    /\ IsAllowDisallowAll
    /\ q.op = "isConnectionAllowed"
    /\ q.minimumStrength = STRENGTH_VERY_VAGUE
    /\ q.output.client = 4 /\ q.input.client = 2
    /\ q.result

\* C6: an addRule call with a pattern that mixes the wildcard character with
\* other characters, or with the unspecified kind, changes neither collection;
\* when no other call was made before it, hasRules() is false after it.
C6_MixedPatternRejected ==
    [][(/\ pc = "load" /\ q'.op = "addRule"
        /\ \/ IsMixedPattern(q'.output) \/ IsMixedPattern(q'.input)
           \/ q'.type = TYPE_UNKNOWN)
       => /\ UNCHANGED ruleVars
          /\ (q = NoQuery => ~hasRules(<<m_allowRules', m_disallowRules'>>))]_vars

C6_Witness ==
    /\ q.op = "addRule"
    /\ q.type = TYPE_ALLOW
    /\ q.output = s_FooStarBar
    /\ q.input = s_star
    /\ ~hasRules(g_rules)

\* C7 as claimed: an addRule call with an empty output or input pattern changes
\* neither collection.
C7_EmptyPatternRejected ==
    [][(/\ pc = "load" /\ q'.op = "addRule"
        /\ (q'.output = s_empty \/ q'.input = s_empty))
       => UNCHANGED ruleVars]_vars

---------------------------------------------------------------------------
(* Claims on main and parseRuleFile (SpecMain) *)

AddrOf(c) == [client |-> c, port |-> 0]
AllNameAddrs == {AddrOf(c) : c \in ClientIds}

\* C3: when main finds no rule loaded after parseRuleFile (the file is
\* missing, or no line led to an accepted rule) it installs exactly
\* Allow(*,*) before run(), and under that rule set every name pair is allowed
\* at minimum strength VeryVague.
C3_DefaultAllowAll ==
    [][(pc = "default" /\ m_allowRules = EmptyBag /\ m_disallowRules = EmptyBag)
       => /\ pc' = "run"
          /\ <<m_allowRules', m_disallowRules'>> = AllowAll
          /\ \A output \in AllNameAddrs, input \in AllNameAddrs :
                isConnectionAllowed(<<m_allowRules', m_disallowRules'>>,
                                    output, input, STRENGTH_VERY_VAGUE)]_vars

C3_Witness ==
    /\ pc = "run"
    /\ consumed = <<l_allow, l_mixed, l_other, l_SynthToAny>>
    /\ g_rules = AllowAll

\* C5: a Disallow rule that matches more strongly than every Allow rule blocks
\* the pair.  With Allow(*,*) and Disallow("DeviceX",*) every pair whose output
\* name contains "DeviceX" is disallowed; after parsing "[allow]",
\* "Synth -> *", "[disallow]", "Synth -> Recorder" the pair ("MySynth Port",
\* "Recorder In") is disallowed and ("MySynth Port", "Other App") is allowed at
\* minimum strength Vague.
C5_StrongerDisallowBlocks ==
    /\ (/\ pc = "run"
        /\ BagToSet(m_allowRules) = {<<s_star, s_star>>}
        /\ BagToSet(m_disallowRules) = {<<s_DeviceX, s_star>>})
       => \A output \in AllNameAddrs, input \in AllNameAddrs, m \in Strengths :
             IsSubstringOf(s_DeviceX, getClientName(output))
                => ~isConnectionAllowed(g_rules, output, input, m)
    /\ (pc = "run" /\ consumed = File_SynthRecorder)
       => /\ \A m \in Strengths : ~isConnectionAllowed(g_rules, AddrOf(1), AddrOf(2), m)
          /\ isConnectionAllowed(g_rules, AddrOf(1), AddrOf(5), STRENGTH_VAGUE)

C5_Witness ==
    /\ pc = "run"
    /\ consumed = File_SynthRecorder
    /\ BagToSet(m_allowRules) = {<<s_Synth, s_star>>}
    /\ BagToSet(m_disallowRules) = {<<s_Synth, s_Recorder>>}
    /\ ~isConnectionAllowed(g_rules, AddrOf(1), AddrOf(2), STRENGTH_VERY_VAGUE)

\* the rule set of the first half of C5 comes out of a configuration file
C5_DeviceXReached ==
    /\ pc = "run"
    /\ BagToSet(m_allowRules) = {<<s_star, s_star>>}
    /\ BagToSet(m_disallowRules) = {<<s_DeviceX, s_star>>}

---------------------------------------------------------------------------
(* Claims on the endpoint registry (Spec) *)

\* the record of client c in a list, a record with both slots unset when the
\* list has none
RecordIn(list, c) == IF c \in DOMAIN list THEN list[c] ELSE NewClient

\* client c has a tracked input in some list
HasTrackedInput(c) ==
    RecordIn(g_swClients, c).input # NoAddr \/ RecordIn(g_hwClients, c).input # NoAddr
\* no slot that is set in list changes in list2
SetSlotsKept(list, list2) ==
    \A c \in DOMAIN list :
        /\ list[c].input # NoAddr => RecordIn(list2, c).input = list[c].input
        /\ list[c].output # NoAddr => RecordIn(list2, c).output = list[c].output

\* C8 as claimed: the first endpoint of a direction wins.  While a client's
\* Input (Output) slot is set no appearance changes the address in it, and a
\* second Input-direction appearance of a client whose Input is tracked
\* makes portAdd return false.
C8_FirstEndpointWins ==
    [][last'.op = "portStart" =>
          /\ SetSlotsKept(g_swClients, g_swClients')
          /\ SetSlotsKept(g_hwClients, g_hwClients')
          /\ (portGetDir(last'.portInfo) = DIR_INPUT
                /\ HasTrackedInput(last'.portInfo.addr.client))
             => ~last'.gotAdded]_vars

\* the part of C8 the code keeps: an appearance never changes a slot that is
\* set, and an Input-only appearance filed under the record whose Input is set
\* returns false
C8_WithinOneRecord ==
    [][last'.op = "portStart" =>
          /\ SetSlotsKept(g_swClients, g_swClients')
          /\ SetSlotsKept(g_hwClients, g_hwClients')
          /\ LET info == last'.portInfo
                 list == IF portGetType(info) = TYPE_SOFTWARE
                         THEN g_swClients ELSE g_hwClients
             IN (portGetDir(info) = DIR_INPUT
                   /\ RecordIn(list, info.addr.client).input # NoAddr)
                => ~last'.gotAdded]_vars

\* C9 as claimed: a client identity has at most one record across
\* g_swClients and g_hwClients, hence at most one tracked Input and at most
\* one tracked Output.
C9_OneRecordPerClient ==
    \A c \in DOMAIN g_swClients \cup DOMAIN g_hwClients :
        /\ ~(c \in DOMAIN g_swClients /\ c \in DOMAIN g_hwClients)
        /\ ~(RecordIn(g_swClients, c).input # NoAddr
               /\ RecordIn(g_hwClients, c).input # NoAddr)
        /\ ~(RecordIn(g_swClients, c).output # NoAddr
               /\ RecordIn(g_hwClients, c).output # NoAddr)

HasPrefix(str, prefix) ==
    Len(str) >= Len(prefix) /\ SubSeq(str, 1, Len(prefix)) = prefix

\* shouldTrack as the specification words it: the port is exported, is not
\* owned by the system client, and its owner is known and is not a
\* pass-through device
ShouldTrack(info) ==
    /\ "NO_EXPORT" \notin info.caps
    /\ info.addr.client # 0
    /\ ClientNameOf(info.addr.client) # NULL
    /\ ~HasPrefix(ClientNameOf(info.addr.client), t_MidiThrough)

\* C10: portAdd returns true exactly when the fact passes shouldTrack and one
\* of its direction bits filled a slot that was unset in its owner's record
\* (the record in the list of the fact's Role); when shouldTrack fails it
\* returns false and both maps are unchanged.
C10_ReturnsTrueIffNewlyTracked ==
    [][last'.op = "portStart" =>
          LET info == last'.portInfo
              c == info.addr.client
              software == portGetType(info) = TYPE_SOFTWARE
              before == RecordIn(IF software THEN g_swClients ELSE g_hwClients, c)
              after == RecordIn(IF software THEN g_swClients' ELSE g_hwClients', c)
              filled ==
                 \/ /\ "WRITE" \in info.caps
                    /\ before.input = NoAddr /\ after.input = info.addr
                 \/ /\ "READ" \in info.caps
                    /\ before.output = NoAddr /\ after.output = info.addr
          IN /\ last'.gotAdded <=> (ShouldTrack(info) /\ filled)
             /\ ~ShouldTrack(info) =>
                   (~last'.gotAdded /\ UNCHANGED <<g_swClients, g_hwClients>>)]_vars

C10_Witness ==
    /\ last.op = "portStart"
    /\ last.gotAdded
    /\ last.portInfo.addr = [client |-> 1, port |-> 1]
    /\ last.portInfo.caps = {"READ", "WRITE"}
    /\ last.portInfo.name = n_TouchOSCPort
    /\ RecordIn(g_hwClients, 1).input = [client |-> 1, port |-> 0]
    /\ RecordIn(g_hwClients, 1).output = [client |-> 1, port |-> 1]

\* a fact that fails shouldTrack was handled
C10_IgnoredReached ==
    /\ last.op = "portStart"
    /\ ~ShouldTrack(last.portInfo)
    /\ ~last.gotAdded
    /\ RecordIn(g_swClients, 1).input # NoAddr

\* a slot after an operation: left as it was, or it held addr and is now unset
SlotKeptOrCleared(before, after, addr) ==
    after = before \/ (before = addr /\ after = NoAddr)

\* C11: portRemove(a) changes only slots whose address equals a: every other
\* slot (of the same client too) and the set of records are as before, a
\* removal for a client with no record changes nothing, and a second
\* portRemove(a) changes nothing more.
C11_RemovalTouchesOnlyItsAddress ==
    [][last'.op = "portExit" =>
          LET a == last'.addr
          IN /\ DOMAIN g_swClients' = DOMAIN g_swClients
             /\ DOMAIN g_hwClients' = DOMAIN g_hwClients
             /\ \A c \in DOMAIN g_swClients :
                    /\ SlotKeptOrCleared(g_swClients[c].input, g_swClients'[c].input, a)
                    /\ SlotKeptOrCleared(g_swClients[c].output, g_swClients'[c].output, a)
             /\ \A c \in DOMAIN g_hwClients :
                    /\ SlotKeptOrCleared(g_hwClients[c].input, g_hwClients'[c].input, a)
                    /\ SlotKeptOrCleared(g_hwClients[c].output, g_hwClients'[c].output, a)
             /\ (a.client \notin DOMAIN g_swClients \cup DOMAIN g_hwClients)
                   => UNCHANGED <<g_swClients, g_hwClients>>
             /\ portRemove(g_swClients', g_hwClients', a)
                   = [sw |-> g_swClients', hw |-> g_hwClients']]_vars

\* port 1:0 was removed while its client tracked it as Output and tracked
\* another port, 1:1, as Input: the Output is cleared, the Input is kept
C11_Witness ==
    /\ last.op = "portExit"
    /\ last.addr = [client |-> 1, port |-> 0]
    /\ last.found
    /\ last.client.output = [client |-> 1, port |-> 0]
    /\ last.client.input = [client |-> 1, port |-> 1]
    /\ RecordIn(g_swClients, 1).output = NoAddr
    /\ RecordIn(g_swClients, 1).input = [client |-> 1, port |-> 1]

\* a removal for a client that has no record was handled
C11_UnknownClientReached ==
    /\ last.op = "portExit"
    /\ ~last.found
    /\ last.addr.client = 6
    /\ RecordIn(g_swClients, 1).input # NoAddr

---------------------------------------------------------------------------
(* Claims on portAutoConnect and portsConnectAll (Spec) *)

\* how often the pair p is among the connect() calls
Occurrences(calls, p) == Cardinality({i \in 1..Len(calls) : calls[i] = p})

\* the Role lookup reports for a client: the Software map is searched first
LookupRole(c) ==
    IF c \in DOMAIN g_swClients THEN CLIENT_SOFTWARE ELSE CLIENT_HARDWARE

\* the map of a Role
MapOf(role) == IF role = CLIENT_SOFTWARE THEN g_swClients ELSE g_hwClients

\* the threshold for scanning the map of Role scanned on behalf of an
\* endpoint whose owner has Role owner
Threshold(owner, scanned) ==
    IF owner = scanned THEN STRENGTH_SPECIFIC ELSE STRENGTH_VERY_VAGUE

Roles == {CLIENT_SOFTWARE, CLIENT_HARDWARE}

\* the candidates <<Role, client>> whose Output is to be linked to the new
\* Input addr, and those whose Input the new Output addr is to be linked to
OutputCandidates(info) ==
    {rc \in Roles \X ClientIds :
        /\ "WRITE" \in info.caps
        /\ rc[2] \in DOMAIN MapOf(rc[1])
        /\ MapOf(rc[1])[rc[2]].output # NoAddr
        /\ isConnectionAllowed(g_rules, MapOf(rc[1])[rc[2]].output, info.addr,
                               Threshold(LookupRole(info.addr.client), rc[1]))}

InputCandidates(info) ==
    {rc \in Roles \X ClientIds :
        /\ "READ" \in info.caps
        /\ rc[2] \in DOMAIN MapOf(rc[1])
        /\ MapOf(rc[1])[rc[2]].input # NoAddr
        /\ isConnectionAllowed(g_rules, info.addr, MapOf(rc[1])[rc[2]].input,
                               Threshold(LookupRole(info.addr.client), rc[1]))}

\* the pairs an appearance can ask to link
AllPairs == (TrackAddrs \cup {NoAddr}) \X (TrackAddrs \cup {NoAddr})

\* C12: portAutoConnect scans the map of the owner's Role at Specific and the
\* other map at VeryVague, and for each candidate client asks for
\* candidateOutput -> newInput (newOutput -> candidateInput) exactly when the
\* new endpoint has the Input (Output) bit, the candidate has that slot set
\* and isConnectionAllowed holds at the threshold of the candidate's map.
C12_ThresholdsAndRequests ==
    (last.op = "portStart" /\ last.gotAdded) =>
        /\ \A i \in 1..Len(connects) : connects[i] \in AllPairs
        /\ \A p \in AllPairs :
              Occurrences(connects, p) =
                 Cardinality({rc \in OutputCandidates(last.portInfo) :
                                 p = <<MapOf(rc[1])[rc[2]].output, last.portInfo.addr>>})
                 + Cardinality({rc \in InputCandidates(last.portInfo) :
                                   p = <<last.portInfo.addr, MapOf(rc[1])[rc[2]].input>>})

\* a software duplex port of client 1 ("MySynth Port") appeared while client 2
\* ("Recorder In") is a software client with both slots set, the rules
\* holding Allow(*,*) and Allow(Synth,Recorder): the same-Role scan links 1 -> 2
\* (Specific) and not 2 -> 1 (VeryVague only)
C12_Witness ==
    /\ last.op = "portStart" /\ last.gotAdded
    /\ last.portInfo.addr = [client |-> 1, port |-> 0]
    /\ last.portInfo.caps = {"READ", "WRITE"}
    /\ LookupRole(1) = CLIENT_SOFTWARE
    /\ RecordIn(g_swClients, 2).input = [client |-> 2, port |-> 0]
    /\ RecordIn(g_swClients, 2).output = [client |-> 2, port |-> 0]
    /\ Occurrences(connects, <<[client |-> 1, port |-> 0], [client |-> 2, port |-> 0]>>) = 1
    /\ Occurrences(connects, <<[client |-> 2, port |-> 0], [client |-> 1, port |-> 0]>>) = 0

\* the same appearance with client 2 a hardware client: the other-Role scan
\* links both ways at VeryVague
C12_CrossRoleReached ==
    /\ last.op = "portStart" /\ last.gotAdded
    /\ last.portInfo.addr = [client |-> 1, port |-> 0]
    /\ last.portInfo.caps = {"READ", "WRITE"}
    /\ LookupRole(1) = CLIENT_SOFTWARE
    /\ 2 \notin DOMAIN g_swClients
    /\ RecordIn(g_hwClients, 2).input = [client |-> 2, port |-> 0]
    /\ Occurrences(connects, <<[client |-> 1, port |-> 0], [client |-> 2, port |-> 0]>>) = 1
    /\ Occurrences(connects, <<[client |-> 2, port |-> 0], [client |-> 1, port |-> 0]>>) = 1

\* every record of a list tracks an Input and an Output
AllFull(list) == \A c \in DOMAIN list : list[c].input # NoAddr /\ list[c].output # NoAddr

\* addr is the tracked Input (Output) of a record of list
IsInputIn(list, addr) == \E c \in DOMAIN list : list[c].input = addr
IsOutputIn(list, addr) == \E c \in DOMAIN list : list[c].output = addr

\* C13: under the policy {Allow(*,*)}, with N software and M hardware clients
\* that each track one Input and one Output, portsInit asks for exactly
\* 2*N*M links, each between a hardware and a software client, and for none
\* between two clients of the same Role.
C13_StartupSweepCount ==
    (/\ last.op = "portsInit"
     /\ g_rules = <<SetToBag({<<s_star, s_star>>}), EmptyBag>>
     /\ AllFull(g_swClients) /\ AllFull(g_hwClients))
    => /\ Len(connects) = 2 * Cardinality(DOMAIN g_swClients)
                             * Cardinality(DOMAIN g_hwClients)
       /\ \A i \in 1..Len(connects) :
             \/ /\ IsOutputIn(g_hwClients, connects[i][1])
                /\ IsInputIn(g_swClients, connects[i][2])
             \/ /\ IsOutputIn(g_swClients, connects[i][1])
                /\ IsInputIn(g_hwClients, connects[i][2])

\* two software and two hardware clients, all full, under Allow(*,*): 8 links
C13_Witness ==
    /\ last.op = "portsInit"
    /\ g_rules = <<SetToBag({<<s_star, s_star>>}), EmptyBag>>
    /\ AllFull(g_swClients) /\ AllFull(g_hwClients)
    /\ DOMAIN g_swClients = {1, 2}
    /\ DOMAIN g_hwClients = {4, 5}
    /\ Len(connects) = 8

\* a list without its records that track neither an Input nor an Output
Purge(list) ==
    [c \in {d \in DOMAIN list : list[d] # NewClient} |-> list[c]]

\* the connect() calls of a PORT_START event for portInfo handled with the
\* lists sw and hw
RequestsFrom(sw, hw, portInfo) ==
    LET r == portAdd(sw, hw, portInfo)
    IN IF r.gotAdded
       THEN portAutoConnect(g_rules, r.sw, r.hw, portInfo.addr,
                            portGetDir(portInfo)).connects
       ELSE <<>>

\* C14 as claimed: empty records are inert.  Deleting every record whose
\* slots are both unset just before an appearance is handled does not change
\* the link requests of that appearance.
C14_EmptyRecordsInert ==
    [][last'.op = "portStart" =>
          connects' = RequestsFrom(Purge(g_swClients), Purge(g_hwClients),
                                   last'.portInfo)]_vars

\* addr is the tracked Input (Output) of a record of its owner
IsTrackedInput(addr) ==
    \/ RecordIn(g_swClients, addr.client).input = addr
    \/ RecordIn(g_hwClients, addr.client).input = addr

IsTrackedOutput(addr) ==
    \/ RecordIn(g_swClients, addr.client).output = addr
    \/ RecordIn(g_hwClients, addr.client).output = addr

\* C15 as claimed: endpoints that lost the first-wins race are ignored for
\* linking.  Every connect() call of portsInit or of a PORT_START event names
\* as its input the tracked Input of a record of the input's owner and as its
\* output the tracked Output of a record of the output's owner.
C15_OnlyTrackedEndpointsLinked ==
    \A i \in 1..Len(connects) :
        /\ IsTrackedOutput(connects[i][1])
        /\ IsTrackedInput(connects[i][2])

\* C16: assert(client) of portAutoConnect never fails.  portAutoConnect runs
\* only after portAdd returned true for the port, and then findClientForPort
\* finds a record for the port's client.
C16_AssertNeverFails ==
    last.op = "portStart" =>
        /\ ~last.assertFailed
        /\ last.gotAdded =>
              findClientForPort(g_swClients, g_hwClients, last.portInfo.addr).found

\* portAutoConnect ran for an Output port of a client whose only record is
\* in the Hardware map, and asked for a link
C16_Witness ==
    /\ last.op = "portStart" /\ last.gotAdded /\ ~last.assertFailed
    /\ last.portInfo.addr = [client |-> 1, port |-> 1]
    /\ 1 \notin DOMAIN g_swClients
    /\ RecordIn(g_hwClients, 1).output = [client |-> 1, port |-> 1]
    /\ RecordIn(g_hwClients, 1).input = NoAddr
    /\ connects # <<>>

\* C17: during the three sweeps of portsInit connect() is called at most once
\* for any pair (output address, input address), also when a list is swept
\* against itself and when a client is paired with itself.
C17_StartupLinksOnce ==
    last.op = "portsInit" =>
        \A i, j \in 1..Len(connects) : connects[i] = connects[j] => i = j

\* the rules hold Allow(Synth,Synth) and Allow(Synth,Recorder); the software
\* clients 1 and 2 are full: the Software x Software sweep met client 1 paired
\* with itself and the pair (1, 2) from both sides, and linked 1:0 -> 1:0 and
\* 1:0 -> 2:0 once each
C17_Witness ==
    /\ last.op = "portsInit"
    /\ consumed = File_SynthSelf
    /\ RecordIn(g_swClients, 1) = [input |-> [client |-> 1, port |-> 0],
                                   output |-> [client |-> 1, port |-> 0]]
    /\ RecordIn(g_swClients, 2) = [input |-> [client |-> 2, port |-> 0],
                                   output |-> [client |-> 2, port |-> 0]]
    /\ Occurrences(connects, <<[client |-> 1, port |-> 0], [client |-> 1, port |-> 0]>>) = 1
    /\ Occurrences(connects, <<[client |-> 1, port |-> 0], [client |-> 2, port |-> 0]>>) = 1

---------------------------------------------------------------------------
(* Claims on the rule-file reader (SpecMain) *)

\* the well-formed rule lines of LineSet and the rule <<output, input>> each
\* one states
WellFormedLines ==
    {l_SynthToAny, l_SynthToRecorder, l_AnyToAny, l_DeviceXToAny, l_RecorderFromSynth}

RuleOf(l) ==
    CASE l = l_SynthToAny -> <<s_Synth, s_star>>
      [] l = l_SynthToRecorder -> <<s_Synth, s_Recorder>>
      [] l = l_AnyToAny -> <<s_star, s_star>>
      [] l = l_DeviceXToAny -> <<s_DeviceX, s_star>>
      [] l = l_RecorderFromSynth -> <<s_Synth, s_Recorder>>

\* the malformed lines of LineSet: no direction token, no left operand
MalformedLines == {l_noSpecifier, l_noLeft}

\* C18: the active rule kind starts as none, becomes Allow / Disallow on an
\* [allow] / [disallow] line and none again on any other bracketed line, and
\* no other line changes it; while it is none no line makes an addRule call;
\* and in a recognized section a well-formed line is added whatever lines,
\* malformed ones included, were read before it.
C18_SectionTracking ==
    [][(pc = "parse" /\ consumed' # consumed) =>
          LET l == consumed'[Len(consumed')]
          IN /\ (consumed = <<>>) => type = TYPE_UNKNOWN
             /\ type' = CASE l = l_allow -> TYPE_ALLOW
                           [] l = l_disallow -> TYPE_DISALLOW
                           [] l = l_other -> TYPE_UNKNOWN
                           [] OTHER -> type
             /\ (type = TYPE_UNKNOWN) =>
                   (addCalls' = <<>> /\ UNCHANGED ruleVars)
             /\ (type # TYPE_UNKNOWN /\ l \in WellFormedLines) =>
                   /\ addCalls' = << <<type, RuleOf(l)[1], RuleOf(l)[2]>> >>
                   /\ BagIn(RuleOf(l), IF type = TYPE_ALLOW THEN m_allowRules'
                                                           ELSE m_disallowRules')]_vars

\* a malformed line was read in the [allow] section and the well-formed line
\* after it was added
C18_Witness ==
    /\ pc = "parse"
    /\ consumed = <<l_allow, l_noLeft, l_noSpecifier, l_SynthToRecorder>>
    /\ type = TYPE_ALLOW
    /\ addCalls = << <<TYPE_ALLOW, s_Synth, s_Recorder>> >>
    /\ m_allowRules = SetToBag({<<s_Synth, s_Recorder>>})

\* an unrecognized section line reset the kind and the rule line after it was
\* not added
C18_ResetReached ==
    /\ pc = "parse"
    /\ consumed = <<l_disallow, l_other, l_SynthToRecorder>>
    /\ type = TYPE_UNKNOWN
    /\ addCalls = <<>>
    /\ ~hasRules(g_rules)

---------------------------------------------------------------------------
(* Claims on removal and lookup (Spec) *)

\* C19 as claimed: after portRemove(a) no record of g_swClients or of
\* g_hwClients has an Input or Output slot equal to a.
C19_RemovedAddressGone ==
    last.op = "portExit" =>
        /\ \A c \in DOMAIN g_swClients :
              g_swClients[c].input # last.addr /\ g_swClients[c].output # last.addr
        /\ \A c \in DOMAIN g_hwClients :
              g_hwClients[c].input # last.addr /\ g_hwClients[c].output # last.addr

\* the part of C19 the code keeps: the record findClientForPort returns for
\* the client of a has no slot equal to a after portRemove(a)
C19_FoundRecordCleared ==
    last.op = "portExit" =>
        LET f == findClientForPort(g_swClients, g_hwClients, last.addr)
        IN f.client.input # last.addr /\ f.client.output # last.addr

\* C20 as claimed: when portAutoConnect runs for a port portAdd has just
\* tracked, the ClientType findClientForPort reports for the port's address
\* is the one of the list portAdd filed the port in.
C20_LookupRoleIsClassifiedRole ==
    (last.op = "portStart" /\ last.gotAdded) =>
        findClientForPort(g_swClients, g_hwClients, last.portInfo.addr).type
           = (IF portGetType(last.portInfo) = TYPE_SOFTWARE
              THEN CLIENT_SOFTWARE ELSE CLIENT_HARDWARE)

\* C21 as claimed: the handling of one PORT_START event never calls connect()
\* twice for the same pair (output address, input address), also for a
\* duplex port whose own client is among the candidates.
C21_AppearanceLinksOnce ==
    last.op = "portStart" =>
        \A i, j \in 1..Len(connects) : connects[i] = connects[j] => i = j

\* the duplex software port 1:0 appeared, its client having no other record,
\* under a rule that is Specific for the client paired with itself:
\* connect(1:0, 1:0) was called twice
C21_SelfLinkedTwice ==
    /\ last.op = "portStart" /\ last.gotAdded
    /\ last.portInfo.addr = [client |-> 1, port |-> 0]
    /\ 1 \notin DOMAIN g_hwClients
    /\ RecordIn(g_swClients, 1) = [input |-> [client |-> 1, port |-> 0],
                                   output |-> [client |-> 1, port |-> 0]]
    /\ Occurrences(connects, <<[client |-> 1, port |-> 0], [client |-> 1, port |-> 0]>>) = 2

=============================================================================
